---------------------------- MODULE Spec2Model ----------------------------
(***************************************************************************)
(* A model of the tensor container of src/src/tensor.rs (the generic       *)
(* fixed-rank Tensor<T,N>) and of the rank-1 clone of src/src/lib.rs.      *)
(*                                                                         *)
(* A tensor is a pair (data, dim): dim is the array of extents and data is *)
(* a Box<[T]>, an owning pointer to a heap buffer.  The heap is modelled   *)
(* explicitly (buffer ids, their contents, the set of live buffers) so     *)
(* that sharing of storage between two tensors is something the model can *)
(* express.  Scalars (f32/f64) are modelled as integers; only equality and *)
(* addition of elements are used (no NaN, no rounding), and usize          *)
(* arithmetic is far below its wrap-around at the extents modelled.        *)
(***************************************************************************)
EXTENDS Integers, Sequences, FiniteSets, TLC

VARIABLES
  N,       \* the const generic rank of the Tensor<T,N> type in use
  slots,   \* the program's tensor variables: slot -> tensor (data, dim)
  heap,    \* buffer id -> contents of the boxed slice
  live,    \* the buffer ids currently allocated
  last,    \* history: the last operation, its inputs, the tensors before it
  dcall    \* the last call of Dimension::index / Dimension::size (SpecDim)

vars == <<N, slots, heap, live, last, dcall>>

(***************************************************************************)
(* Bounds of the model.                                                    *)
(***************************************************************************)
MaxRank == 2        \* ranks 1..MaxRank of the tensor state machine
MaxExtent == 2      \* extents 0..MaxExtent of the tensor state machine
MaxSize == 4        \* shapes of at most MaxSize elements
MaxVal == 2         \* elements and scalars 0..MaxVal
DimMaxRank == 3     \* ranks 1..DimMaxRank of the Dimension calls
DimMaxExtent == 3   \* extents 0..DimMaxExtent of the Dimension calls

Slots == {"t1", "t2"}
BufIds == 1..(Cardinality(Slots) + 2)
Vals == 0..MaxVal

Min(S) == CHOOSE x \in S : \A y \in S : x <= y
MinLen(a, b) == IF Len(a) <= Len(b) THEN Len(a) ELSE Len(b)

(***************************************************************************)
(* Dimension for Dim<N>                                                    *)
(***************************************************************************)
\* self[itr..].iter().fold(1,|prod,d| prod*d): the product of the extents
\* at (1-based) positions itr..Len(dim), folded from the left.
RECURSIVE FoldProd(_, _, _)
FoldProd(dim, itr, prod) ==
  IF itr > Len(dim) THEN prod
  ELSE FoldProd(dim, itr + 1, prod * dim[itr])

\* Dimension::index with the slice taken as self[d.0..]: the stride of an
\* axis then includes the extent of the axis itself.
RECURSIVE FoldIndexFromAxis(_, _, _, _)
FoldIndexFromAxis(dim, ind, k, sum) ==
  IF k > Len(ind) THEN sum
  ELSE FoldIndexFromAxis(dim, ind, k + 1, sum + FoldProd(dim, k, 1) * ind[k])

\* The fold of Dimension::index over ind.iter().enumerate(): position k
\* (1-based) is the pair (d.0, d.1) = (k-1, ind[k]); itr = d.0+1 is the
\* 0-based start of the slice self[itr..], which is 1-based position k+1.
RECURSIVE FoldIndex(_, _, _, _)
FoldIndex(dim, ind, k, sum) ==
  IF k > Len(ind) THEN sum
  ELSE FoldIndex(dim, ind, k + 1, sum + FoldProd(dim, k + 1, 1) * ind[k])

DimIndex(dim, ind) == FoldIndex(dim, ind, 1, 0)

\* Dimension::size with the fold started at 0, as the fold of index is.
DimSizeFoldZero(dim) == FoldProd(dim, 1, 0)

DimSize(dim) == FoldProd(dim, 1, 1)

(***************************************************************************)
(* The heap: Box<[T]> allocation, deallocation.  A memory M is a record    *)
(* [heap, live].                                                           *)
(***************************************************************************)
Default == 0

NullTensor == [data |-> 0, dim |-> <<>>]
IsLive(t) == t.data # 0

Alloc(M, elems) ==
  LET id == Min(BufIds \ M.live)
  IN  [M  |-> [heap |-> [M.heap EXCEPT ![id] = elems],
               live |-> M.live \cup {id}],
       id |-> id]

Free(M, id) ==
  [heap |-> [M.heap EXCEPT ![id] = <<>>], live |-> M.live \ {id}]

\* vec![T::default();size].into_boxed_slice()
Zeros(size) == [i \in 1..size |-> Default]

\* Tensor::new with the buffer sized by the first extent alone.
TensorNewFirstExtent(M, dim) ==
  LET a == Alloc(M, Zeros(dim[1]))
  IN  [M |-> a.M, t |-> [data |-> a.id, dim |-> dim]]

\* Tensor::new
TensorNew(M, dim) ==
  LET size == DimSize(dim)
      a    == Alloc(M, Zeros(size))
  IN  [M |-> a.M, t |-> [data |-> a.id, dim |-> dim]]


\* A snapshot of a tensor: its shape, its elements, the buffer it owns.
NoView == [dim |-> <<>>, elems |-> <<>>, buf |-> 0]
View(M, t) ==
  IF IsLive(t) THEN [dim |-> t.dim, elems |-> M.heap[t.data], buf |-> t.data]
  ELSE NoView

\* Index<Dim<N>> for Tensor<T,N>: &self.data[self.dim.index(ind)].  The
\* slice access is bounds-checked: an offset >= data.len() panics.
TensorIndex(M, self, ind) ==
  LET off == DimIndex(self.dim, ind)
      ok  == off < Len(M.heap[self.data])
  IN  [ok |-> ok, off |-> off,
       val |-> IF ok THEN M.heap[self.data][off + 1] ELSE Default]

\* Index<Idx> for Tensor<T,1>: &self.data[ind]
TensorIndex1(M, self, i) ==
  LET ok == i < Len(M.heap[self.data])
  IN  [ok |-> ok, off |-> i,
       val |-> IF ok THEN M.heap[self.data][i + 1] ELSE Default]

\* IndexMut<Dim<N>> with the offset taken to be the last coordinate alone.
TensorIndexMutLastAxis(M, self, ind, v) ==
  LET off == ind[Len(ind)]
      ok  == off < Len(M.heap[self.data])
  IN  [ok |-> ok, off |-> off,
       M |-> IF ok THEN [M EXCEPT !.heap[self.data][off + 1] = v] ELSE M]

\* IndexMut<Dim<N>> for Tensor<T,N>, followed by the assignment of v
TensorIndexMut(M, self, ind, v) ==
  LET off == DimIndex(self.dim, ind)
      ok  == off < Len(M.heap[self.data])
  IN  [ok |-> ok, off |-> off,
       M |-> IF ok THEN [M EXCEPT !.heap[self.data][off + 1] = v] ELSE M]

\* IndexMut<Idx> for Tensor<T,1>, followed by the assignment of v
TensorIndexMut1(M, self, i, v) ==
  LET ok == i < Len(M.heap[self.data])
  IN  [ok |-> ok, off |-> i,
       M |-> IF ok THEN [M EXCEPT !.heap[self.data][i + 1] = v] ELSE M]

\* Clone that copies the pointer, not the buffer: both tensors own one box.
TensorCloneShallow(M, self) == [M |-> M, t |-> self]

\* Clone for Tensor<T,N>: a new zeroed tensor of self.dim, whose box is
\* then replaced by self.data.clone() (the zeroed box is dropped).
TensorClone(M, self) ==
  LET n == TensorNew(M, self.dim)
      c == Alloc(n.M, n.M.heap[self.data])
  IN  [M |-> Free(c.M, n.t.data), t |-> [data |-> c.id, dim |-> self.dim]]

\* The copy loop of lib.rs: for itr in 0..self.data.len() { t[itr]=self[itr] }
RECURSIVE CopyLoop(_, _, _)
CopyLoop(to, from, itr) ==
  IF itr > Len(from) THEN to
  ELSE CopyLoop([to EXCEPT ![itr] = from[itr]], from, itr + 1)

\* Clone for Tensor<T> (lib.rs, rank 1): Tensor::new(self.data.len()), then
\* the elements copied one by one.
LibTensorClone(M, self) ==
  LET len == Len(M.heap[self.data])
      a   == Alloc(M, Zeros(len))
      M2  == [a.M EXCEPT !.heap[a.id] = CopyLoop(@, M.heap[self.data], 1)]
  IN  [M |-> M2, t |-> [data |-> a.id, dim |-> <<len>>]]

DimMsg == "All dimensions of two tensors must be of the same size to add them."
IndexMsg == "index out of bounds"

\* for (dim1,dim2) in self.dim.iter().zip(rhs.dim.iter()) { if dim1!=dim2 ..}
DimsDiffer(d1, d2) == \E k \in 1..MinLen(d1, d2) : d1[k] # d2[k]

\* The data loop with `*this=other.clone()` for `*this+=other.clone()`.
ZipAssign(x, y) ==
  [i \in 1..Len(x) |-> IF i <= Len(y) THEN y[i] ELSE x[i]]

\* for (this,other) in self.data.iter_mut().zip(rhs.data.iter())
\*   { *this+=other.clone(); }
ZipAdd(x, y) ==
  [i \in 1..Len(x) |-> IF i <= Len(y) THEN x[i] + y[i] ELSE x[i]]

\* AddAssign (rhs by value) with the data loop run before the test of the
\* dimensions: a mismatch panics after the elements have been added.
AddAssignValAddsFirst(M, self, rhs) ==
  LET M2 == [M EXCEPT !.heap[self.data] =
                ZipAdd(M.heap[self.data], M.heap[rhs.data])]
  IN  IF DimsDiffer(self.dim, rhs.dim)
      THEN [ok |-> FALSE, msg |-> DimMsg, at |-> M2, M |-> Free(M2, rhs.data)]
      ELSE [ok |-> TRUE, msg |-> "", at |-> M2, M |-> Free(M2, rhs.data)]

\* AddAssign for Tensor<T,N> (rhs by value).  `at` is the memory when the
\* body completes or panics; in M the moved-in rhs has been dropped, which
\* happens on return and on unwinding alike.
AddAssignVal(M, self, rhs) ==
  IF DimsDiffer(self.dim, rhs.dim)
  THEN [ok |-> FALSE, msg |-> DimMsg, at |-> M, M |-> Free(M, rhs.data)]
  ELSE LET M2 == [M EXCEPT !.heap[self.data] =
                     ZipAdd(M.heap[self.data], M.heap[rhs.data])]
       IN  [ok |-> TRUE, msg |-> "", at |-> M2, M |-> Free(M2, rhs.data)]

\* AddAssign (rhs by reference) that writes the sum to both operands.
AddAssignRefWritesBoth(M, self, rhs) ==
  IF DimsDiffer(self.dim, rhs.dim)
  THEN [ok |-> FALSE, msg |-> DimMsg, at |-> M, M |-> M]
  ELSE LET sum == ZipAdd(M.heap[self.data], M.heap[rhs.data])
           M2  == [M EXCEPT !.heap[self.data] = sum, !.heap[rhs.data] = sum]
       IN  [ok |-> TRUE, msg |-> "", at |-> M2, M |-> M2]

\* AddAssign<&Tensor<T,N>> for Tensor<T,N> (rhs by reference)
AddAssignRef(M, self, rhs) ==
  IF DimsDiffer(self.dim, rhs.dim)
  THEN [ok |-> FALSE, msg |-> DimMsg, at |-> M, M |-> M]
  ELSE LET M2 == [M EXCEPT !.heap[self.data] =
                     ZipAdd(M.heap[self.data], M.heap[rhs.data])]
       IN  [ok |-> TRUE, msg |-> "", at |-> M2, M |-> M2]

\* AddAssign<U> that adds the scalar to the first element only.
AddAssignScalarFirstOnly(M, self, s) ==
  [M EXCEPT !.heap[self.data] =
     [i \in 1..Len(@) |-> IF i = 1 THEN @[i] + s ELSE @[i]]]

\* AddAssign<U> for Tensor<T,N> (U a scalar or a reference to one)
AddAssignScalar(M, self, s) ==
  [M EXCEPT !.heap[self.data] = [i \in 1..Len(@) |-> @[i] + s]]

\* Add<T> for Tensor<T,N>: self+=rhs; self
AddScalar(M, self, s) == [M |-> AddAssignScalar(M, self, s), t |-> self]

\* Add for Tensor<T,N>: self+=rhs; self.  A panic unwinds through add and
\* drops the moved-in self as well.
AddValVal(M, self, rhs) ==
  LET r == AddAssignVal(M, self, rhs)
  IN  IF r.ok THEN [ok |-> TRUE, msg |-> "", M |-> r.M, t |-> self]
      ELSE [ok |-> FALSE, msg |-> r.msg, M |-> Free(r.M, self.data),
            t |-> NullTensor]

\* Add for &Tensor<T,N>: t=self.clone(); t+=rhs; t  (rhs a reference)
AddRefRef(M, self, rhs) ==
  LET c == TensorClone(M, self)
      r == AddAssignRef(c.M, c.t, rhs)
  IN  IF r.ok THEN [ok |-> TRUE, msg |-> "", M |-> r.M, t |-> c.t]
      ELSE [ok |-> FALSE, msg |-> r.msg, M |-> Free(r.M, c.t.data),
            t |-> NullTensor]

\* Add<Tensor<T,N>> for &Tensor<T,N>: t=self.clone(); t+=rhs; t  (rhs moved)
AddRefVal(M, self, rhs) ==
  LET c == TensorClone(M, self)
      r == AddAssignVal(c.M, c.t, rhs)
  IN  IF r.ok THEN [ok |-> TRUE, msg |-> "", M |-> r.M, t |-> c.t]
      ELSE [ok |-> FALSE, msg |-> r.msg, M |-> Free(r.M, c.t.data),
            t |-> NullTensor]

\* Add<&Tensor<T,N>> for Tensor<T,N>: t=self.clone(); t+=rhs; t.  The
\* moved-in self is dropped when add returns or unwinds.
AddValRef(M, self, rhs) ==
  LET c == TensorClone(M, self)
      r == AddAssignRef(c.M, c.t, rhs)
  IN  IF r.ok
      THEN [ok |-> TRUE, msg |-> "", M |-> Free(r.M, self.data), t |-> c.t]
      ELSE [ok |-> FALSE, msg |-> r.msg,
            M |-> Free(Free(r.M, c.t.data), self.data), t |-> NullTensor]

(***************************************************************************)
(* The state machine: a program holding tensor variables (slots) of one    *)
(* Tensor<T,N> type and applying the operations of the container to them.  *)
(* A panic is fatal: after it the program takes no further step.           *)
(* `last` is a history variable: it holds the inputs of an operation, the  *)
(* tensors as they were before it and what it returned.                    *)
(***************************************************************************)
\* The product of the extents, as arithmetic (not as the code folds it).
RECURSIVE Product(_)
Product(d) == IF d = <<>> THEN 1 ELSE Head(d) * Product(Tail(d))

\* The shapes and coordinates the program is run on: every shape of rank n
\* with at most MaxSize elements; for a tensor of shape dim, every in-range
\* coordinate and every coordinate one past the range on any of its axes.
ShapesOfRank ==
  [n \in 1..MaxRank |->
     {d \in [1..n -> 0..MaxExtent] : Product(d) <= MaxSize}]
Shapes(n) == ShapesOfRank[n]
IndexInputsOf ==
  [d \in UNION {ShapesOfRank[n] : n \in 1..MaxRank} |->
     {c \in [1..Len(d) -> 0..(MaxExtent + 1)] :
        \A k \in 1..Len(d) : c[k] <= d[k]}]
IndexInputs(dim) == IndexInputsOf[dim]
ValidCoordsOf ==
  [d \in DOMAIN IndexInputsOf |->
     {c \in IndexInputsOf[d] : \A k \in 1..Len(d) : c[k] < d[k]}]
ValidCoords(dim) == ValidCoordsOf[dim]
InRange(elems) == \A i \in 1..Len(elems) : elems[i] \in Vals

Cur == [heap |-> heap, live |-> live]
Pre == [s \in Slots |-> View(Cur, slots[s])]
NoPre == [s \in Slots |-> NoView]

NoOp == [op |-> "none", form |-> "", ok |-> TRUE, msg |-> "",
         lhs |-> "", rhs |-> "", dst |-> "", ind |-> <<>>, off |-> 0,
         val |-> 0, pre |-> NoPre, atL |-> NoView, atR |-> NoView,
         res |-> NoView]

NoDimCall == [fn |-> "none", shape |-> <<>>, ind |-> <<>>, out |-> 0]

\* The program runs while nothing is recorded.  A step records its operation
\* in `last` or runs unrecorded; a panic is always recorded.  A recorded
\* operation ends the run: `last` then describes the final step of a run
\* whose earlier steps were any operations whatever.
Running == last.op = "none"

\* Addresses carry no meaning beyond equality, so the state kept after a
\* step names the live buffers in the order of the slots owning them (then
\* any live buffer no slot owns).  The views of `last` keep the addresses
\* the operation itself ran with.
SlotSeq == <<"t1", "t2">>

\* The renaming of the buffers the slots own, built slot by slot.
RECURSIVE OwnedNames(_, _, _)
OwnedNames(sl, i, map) ==
  IF i > Len(SlotSeq) THEN map
  ELSE LET b == sl[SlotSeq[i]].data
       IN  IF b = 0 \/ b \in DOMAIN map THEN OwnedNames(sl, i + 1, map)
           ELSE OwnedNames(sl, i + 1,
                           map @@ (b :> Cardinality(DOMAIN map) + 1))

Names(M, sl) ==
  LET own == OwnedNames(sl, 1, <<>>)
  IN  IF M.live \subseteq DOMAIN own THEN own
      ELSE [b \in DOMAIN own \cup M.live |->
              IF b \in DOMAIN own THEN own[b]
              ELSE Cardinality(DOMAIN own) + 1
                     + Cardinality({c \in M.live \ DOMAIN own : c < b})]

Commit(M, sl, rec) ==
  \E ren \in {Names(M, sl)} :
    /\ heap' = [n \in BufIds |->
                  IF \E b \in DOMAIN ren : ren[b] = n
                  THEN M.heap[CHOOSE b \in DOMAIN ren : ren[b] = n]
                  ELSE <<>>]
    /\ live' = {ren[b] : b \in M.live}
    /\ slots' = [s \in Slots |->
                   IF IsLive(sl[s])
                   THEN [sl[s] EXCEPT !.data = ren[sl[s].data]]
                   ELSE sl[s]]
    /\ \E observe \in BOOLEAN :
         last' = IF observe \/ ~rec.ok THEN rec ELSE NoOp
    /\ UNCHANGED <<N, dcall>>

Init ==
  /\ N \in 1..MaxRank
  /\ slots = [s \in Slots |-> NullTensor]
  /\ heap = [b \in BufIds |-> <<>>]
  /\ live = {}
  /\ last = NoOp
  /\ dcall = NoDimCall

\* let s = Tensor::<T,N>::new(dim)
New ==
  /\ Running
  /\ \E s \in Slots, dim \in Shapes(N) :
       /\ ~IsLive(slots[s])
       /\ LET r == TensorNew(Cur, dim)
          IN  Commit(r.M, [slots EXCEPT ![s] = r.t],
                     [NoOp EXCEPT !.op = "new", !.dst = s, !.ind = dim,
                                  !.pre = Pre, !.res = View(r.M, r.t)])

\* s goes out of scope: its box is freed
Drop ==
  /\ Running
  /\ \E s \in Slots :
       /\ IsLive(slots[s])
       /\ Commit(Free(Cur, slots[s].data), [slots EXCEPT ![s] = NullTensor],
                 [NoOp EXCEPT !.op = "drop", !.lhs = s, !.pre = Pre])

\* The record of an indexed read or write of slot s.
IndexRecord(op, form, s, ind, v, r) ==
  [NoOp EXCEPT !.op = op, !.form = form, !.lhs = s, !.ind = ind,
               !.off = r.off, !.val = v, !.ok = r.ok,
               !.msg = IF r.ok THEN "" ELSE IndexMsg, !.pre = Pre]

\* s[ind]
Index ==
  /\ Running
  /\ \E s \in Slots :
       /\ IsLive(slots[s])
       /\ \E ind \in IndexInputs(slots[s].dim) :
            LET r == TensorIndex(Cur, slots[s], ind)
            IN  Commit(Cur, slots, IndexRecord("index", "dim", s, ind, r.val, r))

\* s[ind] = v
IndexMut ==
  /\ Running
  /\ \E s \in Slots, v \in Vals :
       /\ IsLive(slots[s])
       /\ \E ind \in IndexInputs(slots[s].dim) :
            LET r == TensorIndexMut(Cur, slots[s], ind, v)
            IN  Commit(r.M, slots, IndexRecord("index_mut", "dim", s, ind, v, r))

\* s[i] with a bare integer, rank 1 only
Index1 ==
  /\ Running
  /\ \E s \in Slots :
       /\ N = 1
       /\ IsLive(slots[s])
       /\ \E ind \in IndexInputs(slots[s].dim) :
            LET r == TensorIndex1(Cur, slots[s], ind[1])
            IN  Commit(Cur, slots, IndexRecord("index", "idx", s, ind, r.val, r))

\* s[i] = v with a bare integer, rank 1 only
IndexMut1 ==
  /\ Running
  /\ \E s \in Slots, v \in Vals :
       /\ N = 1
       /\ IsLive(slots[s])
       /\ \E ind \in IndexInputs(slots[s].dim) :
            LET r == TensorIndexMut1(Cur, slots[s], ind[1], v)
            IN  Commit(r.M, slots, IndexRecord("index_mut", "idx", s, ind, v, r))

\* let d = s.clone()
Clone ==
  /\ Running
  /\ \E s \in Slots, d \in Slots :
       /\ IsLive(slots[s])
       /\ ~IsLive(slots[d])
       /\ LET r == TensorClone(Cur, slots[s])
          IN  Commit(r.M, [slots EXCEPT ![d] = r.t],
                     [NoOp EXCEPT !.op = "clone", !.form = "tensor", !.lhs = s,
                                  !.dst = d, !.pre = Pre,
                                  !.res = View(r.M, r.t)])

\* let d = s.clone() with the rank-1 Tensor<T> of lib.rs
LibClone ==
  /\ Running
  /\ \E s \in Slots, d \in Slots :
       /\ N = 1
       /\ IsLive(slots[s])
       /\ ~IsLive(slots[d])
       /\ LET r == LibTensorClone(Cur, slots[s])
          IN  Commit(r.M, [slots EXCEPT ![d] = r.t],
                     [NoOp EXCEPT !.op = "clone", !.form = "lib", !.lhs = s,
                                  !.dst = d, !.pre = Pre,
                                  !.res = View(r.M, r.t)])

\* The record of an in-place tensor+tensor addition l += r.
AddAssignRecord(form, l, r, res) ==
  [NoOp EXCEPT !.op = "add_assign", !.form = form, !.lhs = l, !.rhs = r,
               !.dst = l, !.ok = res.ok, !.msg = res.msg, !.pre = Pre,
               !.atL = View(res.at, slots[l]),
               !.atR = View(res.at, slots[r]),
               !.res = View(res.at, slots[l])]

\* l += r  (r moved)
AddAssignTensor ==
  /\ Running
  /\ \E l \in Slots, r \in Slots :
       /\ l # r
       /\ IsLive(slots[l])
       /\ IsLive(slots[r])
       /\ LET res == AddAssignVal(Cur, slots[l], slots[r])
          IN  /\ InRange(res.at.heap[slots[l].data])
              /\ Commit(res.M, [slots EXCEPT ![r] = NullTensor],
                        AddAssignRecord("val", l, r, res))

\* l += &r
AddAssignTensorRef ==
  /\ Running
  /\ \E l \in Slots, r \in Slots :
       /\ l # r
       /\ IsLive(slots[l])
       /\ IsLive(slots[r])
       /\ LET res == AddAssignRef(Cur, slots[l], slots[r])
          IN  /\ InRange(res.at.heap[slots[l].data])
              /\ Commit(res.M, slots, AddAssignRecord("ref", l, r, res))

\* l += s and l += &s  (one generic impl, U = T or U = &T)
AddAssignScalarOp ==
  /\ Running
  /\ \E l \in Slots, s \in Vals, form \in {"val", "ref"} :
       /\ IsLive(slots[l])
       /\ LET M == AddAssignScalar(Cur, slots[l], s)
          IN  /\ InRange(M.heap[slots[l].data])
              /\ Commit(M, slots,
                        [NoOp EXCEPT !.op = "add_assign_scalar", !.form = form,
                                     !.lhs = l, !.dst = l, !.val = s,
                                     !.pre = Pre, !.res = View(M, slots[l])])

\* Where the tensor an addition returns may be bound: a slot the addition
\* moved out of or an empty one; with none, it is a temporary ("") that is
\* dropped at the end of the statement.
Targets(moved) ==
  LET free == {s \in Slots : s \in moved \/ ~IsLive(slots[s])}
  IN  IF free = {} THEN {""} ELSE free

\* The slots, and the memory, after an operation that moved out of the
\* slots `moved` and returned tensor t (in memory M), bound to d.
Bind(moved, d, t) ==
  [s \in Slots |-> IF s = d THEN t
                   ELSE IF s \in moved THEN NullTensor ELSE slots[s]]
AfterBind(M, d, t) == IF d = "" /\ IsLive(t) THEN Free(M, t.data) ELSE M

\* let d = l + s  (l moved)
AddScalarOp ==
  /\ Running
  /\ \E l \in Slots, s \in Vals :
       /\ IsLive(slots[l])
       /\ \E d \in Targets({l}) :
            LET r == AddScalar(Cur, slots[l], s)
            IN  /\ InRange(r.M.heap[r.t.data])
                /\ Commit(AfterBind(r.M, d, r.t), Bind({l}, d, r.t),
                          [NoOp EXCEPT !.op = "add_scalar", !.form = "val",
                                       !.lhs = l, !.dst = d, !.val = s,
                                       !.pre = Pre, !.res = View(r.M, r.t)])

\* The step of a tensor+tensor addition l (+) r that moved out of the slots
\* `moved` and ended as res says.
AddStep(form, l, r, moved, res) ==
  LET rec == [NoOp EXCEPT !.op = "add", !.form = form, !.lhs = l, !.rhs = r,
                          !.ok = res.ok, !.msg = res.msg, !.pre = Pre,
                          !.res = View(res.M, res.t)]
  IN  IF res.ok
      THEN /\ InRange(res.M.heap[res.t.data])
           /\ \E d \in Targets(moved) :
                Commit(AfterBind(res.M, d, res.t), Bind(moved, d, res.t),
                       [rec EXCEPT !.dst = d])
      ELSE Commit(res.M, Bind(moved, "", NullTensor), rec)

\* let d = l + r  (both moved)
AddTensor ==
  /\ Running
  /\ \E l \in Slots, r \in Slots :
       /\ l # r
       /\ IsLive(slots[l])
       /\ IsLive(slots[r])
       /\ AddStep("val_val", l, r, {l, r}, AddValVal(Cur, slots[l], slots[r]))

\* let d = &l + &r  (l and r may be the same tensor)
AddTensorRefRef ==
  /\ Running
  /\ \E l \in Slots, r \in Slots :
       /\ IsLive(slots[l])
       /\ IsLive(slots[r])
       /\ AddStep("ref_ref", l, r, {}, AddRefRef(Cur, slots[l], slots[r]))

\* let d = &l + r  (r moved)
AddTensorRefVal ==
  /\ Running
  /\ \E l \in Slots, r \in Slots :
       /\ l # r
       /\ IsLive(slots[l])
       /\ IsLive(slots[r])
       /\ AddStep("ref_val", l, r, {r}, AddRefVal(Cur, slots[l], slots[r]))

\* let d = l + &r  (l moved)
AddTensorValRef ==
  /\ Running
  /\ \E l \in Slots, r \in Slots :
       /\ l # r
       /\ IsLive(slots[l])
       /\ IsLive(slots[r])
       /\ AddStep("val_ref", l, r, {l}, AddValRef(Cur, slots[l], slots[r]))

Next ==
  \/ New
  \/ Drop
  \/ Index
  \/ IndexMut
  \/ Index1
  \/ IndexMut1
  \/ Clone
  \/ LibClone
  \/ AddAssignTensor
  \/ AddAssignTensorRef
  \/ AddAssignScalarOp
  \/ AddScalarOp
  \/ AddTensor
  \/ AddTensorRefRef
  \/ AddTensorRefVal
  \/ AddTensorValRef

Spec == Init /\ [][Next]_vars

(***************************************************************************)
(* Dimension::index and Dimension::size as functions of their inputs: the  *)
(* shape and the coordinate are drawn from bounded sets and the function   *)
(* is applied once.                                                        *)
(***************************************************************************)
DimShapes(n) == [1..n -> 0..DimMaxExtent]
DimCoords(n) == [1..n -> 0..(DimMaxExtent + 1)]

\* shape.index(ind)
DimensionIndex ==
  /\ dcall.fn = "none"
  /\ \E n \in 1..DimMaxRank :
       \E shape \in DimShapes(n), ind \in DimCoords(n) :
         /\ dcall' = [fn |-> "index", shape |-> shape, ind |-> ind,
                      out |-> DimIndex(shape, ind)]
         /\ UNCHANGED <<N, slots, heap, live, last>>

\* shape.size()
DimensionSize ==
  /\ dcall.fn = "none"
  /\ \E n \in 1..DimMaxRank :
       \E shape \in DimShapes(n) :
         /\ dcall' = [fn |-> "size", shape |-> shape, ind |-> <<>>,
                      out |-> DimSize(shape)]
         /\ UNCHANGED <<N, slots, heap, live, last>>

NextDim ==
  \/ DimensionIndex
  \/ DimensionSize

SpecDim == Init /\ [][NextDim]_vars

(***************************************************************************)
(* Properties.  In the state after a recorded operation, a == the left     *)
(* operand before it, b == the right operand before it, last.res == the    *)
(* tensor it returned (for an in-place operation, the tensor it updated).  *)
(***************************************************************************)
OpA == last.pre[last.lhs]
OpB == last.pre[last.rhs]

\* v[c]: the element of a snapshot at coordinate c, found as Index finds it
At(v, c) == v.elems[DimIndex(v.dim, c) + 1]

SameTensor(v, w) == v.dim = w.dim /\ v.elems = w.elems

\* The tensor now held by slot s.
Now(s) == View(Cur, slots[s])

\* Slot s holds now the tensor it held before the operation.
Untouched(s) == IsLive(slots[s]) /\ SameTensor(Now(s), last.pre[s])

\* The row-major offset as arithmetic: the sum over the axes i of
\* c[i] * (the product of the extents to the right of i).
RECURSIVE SumOver(_, _)
SumOver(f, n) == IF n = 0 THEN 0 ELSE f[n] + SumOver(f, n - 1)
RowMajor(shape, c) ==
  SumOver([i \in 1..Len(shape) |->
             c[i] * Product(SubSeq(shape, i + 1, Len(shape)))],
          Len(shape))

\* C1: every tensor+tensor addition form (a += b, a += &b, a + b, &a + &b,
\* &a + b, a + &b) of two tensors of equal shape completes, and its result
\* has the shape of a and holds a[c] + b[c] at every valid coordinate c,
\* a[c] and b[c] being the values before the operation.
C1_ElementwiseAdd ==
  (last.op \in {"add_assign", "add"} /\ OpA.dim = OpB.dim) =>
    /\ last.ok
    /\ last.res.dim = OpA.dim
    /\ \A c \in ValidCoords(OpA.dim) :
         At(last.res, c) = At(OpA, c) + At(OpB, c)
    /\ last.dst # "" => SameTensor(Now(last.dst), last.res)

C1_Witness ==
  /\ last.op = "add"
  /\ last.form = "ref_val"
  /\ last.ok
  /\ OpA.dim = <<2, 2>>
  /\ OpB.dim = <<2, 2>>
  /\ \E c \in ValidCoords(OpA.dim) : At(OpA, c) = 1 /\ At(OpB, c) = 1
  /\ \E c \in ValidCoords(OpA.dim) : At(OpA, c) = 0 /\ At(OpB, c) = 2

\* C2: in-place addition (a += b, a += &b) of two tensors whose extents
\* differ on some axis panics with the dimension message, and when it
\* panics no element of a or of b has been changed.
C2_MismatchPanicsUnchanged ==
  (/\ last.op = "add_assign"
   /\ \E k \in 1..N : OpA.dim[k] # OpB.dim[k]) =>
    /\ ~last.ok
    /\ last.msg =
         "All dimensions of two tensors must be of the same size to add them."
    /\ SameTensor(last.atL, OpA)
    /\ SameTensor(last.atR, OpB)

C2_Witness ==
  /\ last.op = "add_assign"
  /\ last.form = "val"
  /\ ~last.ok
  /\ N = 2
  /\ OpA.dim[1] = OpB.dim[1]
  /\ OpA.dim[2] # OpB.dim[2]
  /\ \E i \in 1..Len(OpA.elems) : OpA.elems[i] # 0
  /\ \E i \in 1..Len(OpB.elems) : OpB.elems[i] # 0

\* C3: after t[c] = v at a valid coordinate c, reading t[c] returns v, and
\* reading any other valid coordinate returns what it returned before the
\* write.
C3_WriteThenRead ==
  (/\ last.op = "index_mut"
   /\ last.ind \in ValidCoords(OpA.dim)) =>
    /\ last.ok
    /\ LET t == slots[last.lhs]
           read(c) == IF last.form = "idx" THEN TensorIndex1(Cur, t, c[1])
                      ELSE TensorIndex(Cur, t, c)
       IN  /\ read(last.ind).ok
           /\ read(last.ind).val = last.val
           /\ \A c \in ValidCoords(OpA.dim) \ {last.ind} :
                read(c).ok /\ read(c).val = At(OpA, c)

C3_Witness ==
  /\ last.op = "index_mut"
  /\ last.form = "dim"
  /\ last.ok
  /\ OpA.dim = <<2, 2>>
  /\ OpA.elems = <<1, 1, 1, 1>>
  /\ last.ind = <<1, 0>>
  /\ last.val = 2
  /\ Now(last.lhs).elems = <<1, 1, 2, 1>>

\* C4: Dimension::index returns the row-major offset: the sum over the axes
\* i of coordinate[i] * (the product of the extents right of i), the last
\* axis having stride 1; for a rank-2 shape [r, c], index([i, j]) = i*c + j.
C4_RowMajorOffset ==
  dcall.fn = "index" =>
    /\ dcall.out = RowMajor(dcall.shape, dcall.ind)
    /\ Len(dcall.shape) = 2 =>
         dcall.out = dcall.ind[1] * dcall.shape[2] + dcall.ind[2]

C4_Witness ==
  /\ dcall.fn = "index"
  /\ dcall.shape = <<2, 3>>
  /\ dcall.ind = <<1, 2>>
  /\ dcall.out = 5

\* C5: Tensor::new(s) stores s as the shape, allocates product(s) elements
\* (none when an extent is 0), each the scalar default 0.
C5_NewZeroed ==
  last.op = "new" =>
    /\ last.res.dim = last.ind
    /\ Len(last.res.elems) = Product(last.ind)
    /\ (\E k \in 1..N : last.ind[k] = 0) => last.res.elems = <<>>
    /\ \A i \in 1..Len(last.res.elems) : last.res.elems[i] = 0
    /\ SameTensor(Now(last.dst), last.res)

C5_Witness ==
  /\ last.op = "new"
  /\ last.ind = <<2, 2>>
  /\ Now(last.dst).elems = <<0, 0, 0, 0>>

\* C6: u = t.clone() has the shape of t and u[c] = t[c] at every valid c,
\* in storage of its own, t being left as it was; and every later indexed
\* write or in-place addition applied to one tensor leaves every element of
\* every other tensor unchanged (so no sequence of them applied to t changes
\* u, nor one applied to u changes t).
C6_CloneIndependent ==
  /\ last.op = "clone" =>
       /\ last.res.dim = OpA.dim
       /\ Len(last.res.elems) = Len(OpA.elems)
       /\ \A c \in ValidCoords(OpA.dim) : At(last.res, c) = At(OpA, c)
       /\ last.res.buf # OpA.buf
       /\ SameTensor(Now(last.dst), last.res)
       /\ Untouched(last.lhs)
       /\ slots[last.dst].data # slots[last.lhs].data
  /\ last.op \in {"index_mut", "add_assign", "add_assign_scalar"} =>
       \A s \in Slots \ {last.lhs} : IsLive(slots[s]) => Untouched(s)

C6_Witness ==
  /\ last.op = "index_mut"
  /\ last.ok
  /\ \E u \in Slots \ {last.lhs} :
       /\ SameTensor(last.pre[u], OpA)
       /\ last.pre[u].buf # OpA.buf
       /\ Untouched(u)
  /\ OpA.dim = <<2, 2>>
  /\ OpA.elems = <<1, 2, 0, 1>>
  /\ Now(last.lhs).elems # OpA.elems

\* C7: the scalar addition forms (a += s, a += &s, a + s) never fail, and
\* their result has the shape of a and holds a[c] + s at every valid
\* coordinate c, a[c] being the value before the operation.
C7_ScalarAdd ==
  last.op \in {"add_assign_scalar", "add_scalar"} =>
    /\ last.ok
    /\ last.res.dim = OpA.dim
    /\ Len(last.res.elems) = Len(OpA.elems)
    /\ \A c \in ValidCoords(OpA.dim) : At(last.res, c) = At(OpA, c) + last.val
    /\ SameTensor(Now(last.dst), last.res)

C7_Witness ==
  /\ last.op = "add_assign_scalar"
  /\ last.form = "ref"
  /\ last.val = 1
  /\ OpA.dim = <<2, 2>>
  /\ OpA.elems = <<0, 1, 1, 0>>
  /\ Now(last.lhs).elems = <<1, 2, 2, 1>>

\* C8: addition through a reference leaves the referenced operand as it was:
\* b after a += &b and a + &b, a (and b, when a reference) after &a + &b and
\* &a + b; and the tensor &a + &b or &a + b returns is in storage it shares
\* with neither a nor b.
C8_RefOperandsUnchanged ==
  /\ (last.op = "add_assign" /\ last.form = "ref") => Untouched(last.rhs)
  /\ (last.op = "add" /\ last.form = "val_ref") => Untouched(last.rhs)
  /\ (last.op = "add" /\ last.form = "ref_ref") =>
       Untouched(last.lhs) /\ Untouched(last.rhs)
  /\ (last.op = "add" /\ last.form = "ref_val") => Untouched(last.lhs)
  /\ (last.op = "add" /\ last.form \in {"ref_ref", "ref_val"} /\ last.ok) =>
       /\ last.res.buf \notin {OpA.buf, OpB.buf}
       /\ last.dst # "" =>
            \A s \in Slots \ {last.dst} :
              IsLive(slots[s]) => slots[s].data # slots[last.dst].data

C8_Witness ==
  /\ last.op = "add"
  /\ last.form = "ref_ref"
  /\ last.lhs # last.rhs
  /\ last.ok
  /\ OpA.dim = <<2, 2>>
  /\ last.res.elems # OpA.elems
  /\ last.res.elems # OpB.elems

\* C9: the data buffer of every tensor that exists has as many elements as
\* the product of its extents, in every state and for every tensor an
\* operation returns.
C9_LenIsSize ==
  /\ \A s \in Slots :
       IsLive(slots[s]) => Len(heap[slots[s].data]) = Product(slots[s].dim)
  /\ last.res # NoView => Len(last.res.elems) = Product(last.res.dim)

C9_Witness ==
  /\ last.op = "add_assign"
  /\ last.form = "ref"
  /\ last.ok
  /\ Len(Now(last.lhs).elems) = 4
  /\ Product(slots[last.lhs].dim) = 4
  /\ IsLive(slots[last.rhs])

\* C10: for a coordinate out of range on some axis, Dimension::index returns
\* an offset out of range for the storage (offset >= product of the
\* extents), so that reading or writing t[c] panics instead of reaching an
\* element of the tensor.
C10_OutOfRangeAccessFaults ==
  (/\ last.op \in {"index", "index_mut"}
   /\ last.form = "dim"
   /\ \E k \in 1..N : last.ind[k] >= OpA.dim[k]) =>
    /\ last.off >= Product(OpA.dim)
    /\ ~last.ok
    /\ SameTensor(Now(last.lhs), OpA)

=============================================================================
